---- MODULE Spec2Model ----
(***************************************************************************)
(* A model of pyremedy's ARS object (src/pyremedy/ars.py): the session,    *)
(* its three caches, its errors attribute, and the native calls and        *)
(* releases each public method performs.  Every public method is one       *)
(* atomic action (the object is single-threaded and synchronous); the      *)
(* native library is the environment and answers each call with a return   *)
(* code, a status list and, on success, the data the server holds.         *)
(***************************************************************************)
EXTENDS Integers, Sequences, FiniteSets, TLC

VARIABLES
    phase,                 \* ghost: which lifecycle calls have completed
    history,               \* ghost: the schema list the first successful listing
                           \* returned, the schemas update_fields has returned for
    errors,                \* self.errors
    schema_cache,          \* self.schema_cache: <<>> is None, <<l>> is the list l
    field_name_cache,      \* self.field_name_cache: schema -> name -> id
    field_name_cache_rev,  \* self.field_name_cache_rev: schema -> id -> name
    field_enum_cache,      \* self.field_enum_cache: schema -> id -> ordinal -> label
    pc,                    \* "idle" between calls, "returned" at a call boundary
    call,                  \* the public call that just returned and its arguments
                           \* (but qual: what it matched is in fetched)
    pre,                   \* the instance attributes as they were when it began
    atcall,                \* <<>> or <<the caches as its last native call found them>>
    events,                \* native calls, reads and releases it made, in order
    answer,                \* <<>> or <<the answer of the last native call it made>>
    fetched,               \* <<>> or <<the entry list the retrieval call returned>>
    raised,                \* "" or the exception class it raised
    msg,                   \* what the exception message names
    ret                    \* the value it returned (a sequence; <<>> if none)

vars == <<phase, history, errors, schema_cache, field_name_cache, field_name_cache_rev,
          field_enum_cache, pc, call, pre, atcall, events, answer, fetched,
          raised, msg, ret>>

(***************************************************************************)
(* Bounds of the model.                                                    *)
(***************************************************************************)
MaxEntries == 2   \* entries one entry-retrieval call returns
MaxFields == 2    \* length of the fields argument of query
MaxStatus == 2    \* records in a status list

(***************************************************************************)
(* Constants of the native header (arh) the code compares against.         *)
(***************************************************************************)
AR_RETURN_ERROR == 2
\* the codes below the threshold: success and warning
AR_RETURN_OK == AR_RETURN_ERROR - 2
AR_RETURN_WARNING == AR_RETURN_ERROR - 1
AR_RETURN_FATAL == AR_RETURN_ERROR + 1
AR_DATA_TYPE_NULL == 0
AR_DATA_TYPE_CHAR == 4
AR_DATA_TYPE_ENUM == 6
AR_DATA_TYPE_TIME == 7
\* a tag query has no branch for
AR_DATA_TYPE_INTEGER == AR_DATA_TYPE_CHAR - 2
AR_ENUM_STYLE_REGULAR == 1
AR_ENUM_STYLE_CUSTOM == 2
\* the style update_fields has no branch for
AR_ENUM_STYLE_QUERY == AR_ENUM_STYLE_CUSTOM + 1

(***************************************************************************)
(* Python values.                                                          *)
(***************************************************************************)
None == "None"
PyNone == [type |-> "NoneType", s |-> "", n |-> 0]
PyStr(x) == [type |-> "str", s |-> x, n |-> 0]
\* datetime.fromtimestamp(t): a datetime object, not the integer t
PyDatetime(t) == [type |-> "datetime", s |-> "", n |-> t]

\* d[k] = v on a dict d
Put(d, k, v) == [x \in (DOMAIN d) \cup {k} |-> IF x = k THEN v ELSE d[x]]

\* {i: n for n, i in d.iteritems()}; the ids of one schema are distinct, so
\* exactly one name maps to each id
Invert(d) ==
    [i \in {d[n] : n \in DOMAIN d} |-> CHOOSE n \in DOMAIN d : d[n] = i]

(***************************************************************************)
(* The native service: what the server holds.                              *)
(***************************************************************************)
NoEnum == [listStyle |-> 0, regularList |-> <<>>, customList |-> <<>>]

FieldDef(id, name, dataType, limits) ==
    [id |-> id, name |-> name, dataType |-> dataType, enumLimits |-> limits]

\* "Incident": text, a regular enum and a time.  "Task": a custom enum and two
\* fields that share a name.  "Broken": a query-style enum between two texts.
Schemas == {"Incident", "Task", "Broken"}

ServerFieldTable ==
  [schema \in Schemas |->
    CASE schema = "Incident" ->
           << FieldDef(1, "Summary", AR_DATA_TYPE_CHAR, NoEnum),
              FieldDef(2, "Status", AR_DATA_TYPE_ENUM,
                       [listStyle |-> AR_ENUM_STYLE_REGULAR,
                        regularList |-> <<"New", "Closed">>,
                        customList |-> <<>>]),
              FieldDef(3, "Created", AR_DATA_TYPE_TIME, NoEnum) >>
      [] schema = "Task" ->
           << FieldDef(1, "Priority", AR_DATA_TYPE_ENUM,
                       [listStyle |-> AR_ENUM_STYLE_CUSTOM,
                        regularList |-> <<>>,
                        customList |-> << [itemNumber |-> 5, itemName |-> "Urgent"],
                                          [itemNumber |-> 1, itemName |-> "Low"] >>]),
              FieldDef(2, "Count", AR_DATA_TYPE_CHAR, NoEnum),
              FieldDef(3, "Count", AR_DATA_TYPE_INTEGER, NoEnum) >>
      [] schema = "Broken" ->
           << FieldDef(1, "Name", AR_DATA_TYPE_CHAR, NoEnum),
              FieldDef(2, "Lookup", AR_DATA_TYPE_ENUM,
                       [listStyle |-> AR_ENUM_STYLE_QUERY,
                        regularList |-> <<>>,
                        customList |-> <<>>]),
              FieldDef(3, "Tail", AR_DATA_TYPE_CHAR, NoEnum) >> ]

ServerFields(schema) == ServerFieldTable[schema]

\* the lists the schema-listing call can return
SchemaListings == { <<>>, <<"Incident", "Task", "Broken">> }

\* the names a caller may ask for: the server's field names and one more
FieldNames(schema) ==
    {ServerFields(schema)[i].name : i \in 1..Len(ServerFields(schema))} \cup {"Nope"}

\* a value as the native layer returns it: a type tag and the union u
Value(dataType, charVal, enumVal, timeVal) ==
    [dataType |-> dataType,
     u |-> [charVal |-> charVal, enumVal |-> enumVal, timeVal |-> timeVal]]

NullValue == Value(AR_DATA_TYPE_NULL, "", 0, 0)
CharValue(c) == Value(AR_DATA_TYPE_CHAR, c, 0, 0)
EnumValue(e) == Value(AR_DATA_TYPE_ENUM, "", e, 0)
TimeValue(t) == Value(AR_DATA_TYPE_TIME, "", 0, t)
IntegerValue == Value(AR_DATA_TYPE_INTEGER, "", 0, 0)

\* a stored entry: how many identifiers it reports, the first of them, and
\* its value for every field id of the schema
Row(numIds, id, v1, v2, v3) ==
    [numItems |-> numIds, entryId |-> id, values |-> <<v1, v2, v3>>]

ServerRowTable ==
  [schema \in Schemas |->
    CASE schema = "Incident" ->
           << Row(1, "INC1", CharValue("printer"), EnumValue(0), TimeValue(0)),
              Row(1, "INC2", CharValue("odd"), EnumValue(7), TimeValue(0)),
              Row(2, "INC3", CharValue("two ids"), EnumValue(0), TimeValue(0)),
              Row(1, "INC4", NullValue, EnumValue(1), NullValue) >>
      [] schema = "Task" ->
           << Row(1, "TSK1", EnumValue(5), CharValue("c"), IntegerValue),
              Row(1, "TSK2", EnumValue(1), CharValue("c"), NullValue),
              Row(0, "", EnumValue(1), CharValue("c"), NullValue) >>
      [] schema = "Broken" ->
           << Row(1, "BRK1", CharValue("n"), EnumValue(0), CharValue("t")),
              Row(2, "BRK2", CharValue("n"), EnumValue(0), CharValue("t")) >> ]

ServerRows(schema) == ServerRowTable[schema]

\* the status records a native call can report
StatusSample ==
    << [messageNum |-> 90, messageText |-> "no server", appendedText |-> ""],
       [messageNum |-> 302, messageText |-> "no entry", appendedText |-> "detail"],
       [messageNum |-> 623, messageText |-> "bad login", appendedText |-> ""] >>

StatusLists == {SubSeq(StatusSample, 1, n) : n \in 0..MaxStatus}

RetCodes == {AR_RETURN_OK, AR_RETURN_WARNING, AR_RETURN_ERROR, AR_RETURN_FATAL}

\* a call that returns AR_RETURN_OK has nothing to report, a warning is one
\* record, an error is any list that is not empty, and a fatal error is the
\* longest list
StatusFor(rc) ==
    IF rc = AR_RETURN_OK THEN {<<>>}
    ELSE IF rc = AR_RETURN_WARNING THEN {SubSeq(StatusSample, 1, 1)}
    ELSE IF rc = AR_RETURN_ERROR THEN StatusLists \ {<<>>}
    ELSE {SubSeq(StatusSample, 1, MaxStatus)}

NativeResponses ==
    UNION {{[rc |-> c, status |-> s] : s \in StatusFor(c)} : c \in RetCodes}

(***************************************************************************)
(* A public call in progress: the instance attributes, self.status, the    *)
(* return code of the last native call, and what the call has done so far. *)
(* A method is a set of such records, one per way the native layer can     *)
(* answer.                                                                 *)
(***************************************************************************)
Attributes ==
    [phase |-> phase, history |-> history,
     errors |-> errors, schema_cache |-> schema_cache,
     field_name_cache |-> field_name_cache,
     field_name_cache_rev |-> field_name_cache_rev,
     field_enum_cache |-> field_enum_cache]

Begin(attrs) ==
    [history |-> attrs.history,
     errors |-> attrs.errors, schema_cache |-> attrs.schema_cache,
     field_name_cache |-> attrs.field_name_cache,
     field_name_cache_rev |-> attrs.field_name_cache_rev,
     field_enum_cache |-> attrs.field_enum_cache,
     status |-> <<>>, rc |-> AR_RETURN_OK, answer |-> <<>>, fetched |-> <<>>,
     atcall |-> <<>>,
     events |-> <<>>, raised |-> "", msg |-> <<>>, ret |-> <<>>]

\* the four caches of an instance
Caches(m) ==
    [schema_cache |-> m.schema_cache,
     field_name_cache |-> m.field_name_cache,
     field_name_cache_rev |-> m.field_name_cache_rev,
     field_enum_cache |-> m.field_enum_cache]

Event(m, kind, what) == [m EXCEPT !.events = Append(@, <<kind, what>>)]

\* self.arlib.<fn>(...): the call is issued, fills its out-parameters and
\* self.status, and returns a code; the log notes the calls the native layer
\* failed, whatever the caller makes of the code
CallNative(m, fn) ==
    { [(IF r.rc >= AR_RETURN_ERROR
          THEN Event(Event(m, "call", fn), "fail", fn)
          ELSE Event(m, "call", fn)) EXCEPT
         !.status = r.status, !.rc = r.rc, !.answer = <<r>>,
         !.atcall = <<Caches(m)>>] :
        r \in NativeResponses }

\* a slip: "> arh.AR_RETURN_ERROR"
IsError_above(rc) == rc > AR_RETURN_ERROR

\* ... >= arh.AR_RETURN_ERROR
IsError(rc) == rc >= AR_RETURN_ERROR

\* the code reads a structure a native call filled
Read(m, struct) == Event(m, "read", struct)

\* self.arlib.FreeAR...(byref(struct), arh.FALSE)
Free(m, struct) == Event(m, "free", struct)

FreeARStatusList(m) == [Free(m, "status") EXCEPT !.status = <<>>]

\* a slip: the structure the next call takes is released with the status
ReleaseBetweenCalls_early(m, kept) == FreeARStatusList(Free(m, kept))

\* between two chained native calls only the status list is released: the
\* structure the first call filled is kept, the next call takes it
ReleaseBetweenCalls(m, kept) == FreeARStatusList(m)

Raise(m, class, what) == [m EXCEPT !.raised = class, !.msg = what]

Return(m, value) == [m EXCEPT !.ret = value]

\* the tuples _update_errors makes of a status list
StatusTuples(status) ==
    [i \in 1..Len(status) |->
       << status[i].messageNum,
          status[i].messageText,
          IF status[i].appendedText # "" THEN status[i].appendedText ELSE None >>]

\* a slip: self.errors is not emptied first
_update_errors_append(m) ==
    [Event(m, "decode", "status") EXCEPT !.errors = @ \o StatusTuples(m.status)]

\* a slip: the failure handler also forgets the schema list
_update_errors_reset(m) ==
    [Event(m, "decode", "status") EXCEPT
       !.errors = StatusTuples(m.status), !.schema_cache = <<>>]

_update_errors(m) ==
    [Event(m, "decode", "status") EXCEPT !.errors = StatusTuples(m.status)]

\* the attributes __init__ sets before it talks to the server
NewObject ==
    [phase |-> "Uninitialized", history |-> [listed |-> <<>>, updated |-> {}],
     errors |-> <<>>, schema_cache |-> <<>>, field_name_cache |-> <<>>,
     field_name_cache_rev |-> <<>>, field_enum_cache |-> <<>>]

\* a slip: "if port and rpc_program_number:"
PortRequested_both(port, rpc_program_number) == port # 0 /\ rpc_program_number # 0

\* if port or rpc_program_number:
PortRequested(port, rpc_program_number) == port # 0 \/ rpc_program_number # 0

__init__(port, rpc_program_number) ==
    UNION {
      IF IsError(a.rc)
        THEN { Raise(FreeARStatusList(_update_errors(a)),
                     "ARSError", <<"initialisation">>) }
        ELSE IF PortRequested(port, rpc_program_number)
          THEN UNION {
                 IF IsError(b.rc)
                   THEN { Raise(FreeARStatusList(_update_errors(b)),
                                "ARSError", <<"set port">>) }
                   ELSE { FreeARStatusList(b) }
                 : b \in CallNative(FreeARStatusList(a), "ARSetServerPort") }
          ELSE { FreeARStatusList(a) }
      : a \in CallNative(Begin(NewObject), "ARInitialization") }

terminate(m) ==
    UNION {
      IF IsError(a.rc)
        THEN { Raise(FreeARStatusList(_update_errors(a)),
                     "ARSError", <<"terminate">>) }
        ELSE { FreeARStatusList(a) }
      : a \in CallNative(m, "ARTermination") }

\* a slip: "if self.schema_cache:", which an empty list fails
SchemaCacheHit_truthy(m) == m.schema_cache # <<>> /\ m.schema_cache[1] # <<>>

\* self.schema_cache is not None
SchemaCacheHit(m) == m.schema_cache # <<>>

schemas(m) ==
    IF SchemaCacheHit(m)
      THEN { Return(m, m.schema_cache[1]) }
      ELSE UNION {
        IF IsError(a.rc)
          THEN { Raise(FreeARStatusList(Free(_update_errors(a), "schema_list")),
                       "ARSError", <<"schemas">>) }
          ELSE { LET b == [Read(a, "schema_list") EXCEPT
                                !.schema_cache = <<l>>,
                                !.history.listed = IF @ = <<>> THEN <<l>> ELSE @]
                 IN  Return(FreeARStatusList(Free(b, "schema_list")),
                            b.schema_cache[1])
                 : l \in SchemaListings }
        : a \in CallNative(m, "ARGetListSchema") }

(***************************************************************************)
(* update_fields                                                           *)
(***************************************************************************)
\* a slip: the test looks the schema up in schema_cache, the list of schemas
FieldCacheHit_in_schema_cache(m, schema) ==
    /\ m.schema_cache # <<>>
    /\ \E i \in 1..Len(m.schema_cache[1]) : m.schema_cache[1][i] = schema
    /\ schema \in DOMAIN m.field_name_cache

\* schema in self.field_name_cache and schema in self.field_enum_cache
FieldCacheHit(m, schema) ==
    /\ schema \in DOMAIN m.field_name_cache
    /\ schema \in DOMAIN m.field_enum_cache

\* a slip: the ordinals are counted from one
RegularEnum_one_based(table, nameList, j) ==
    [k \in (j + 1)..Len(nameList) |-> nameList[k]]

\* for j in range(regular_list.numItems): table[j] = nameList[j].value
RECURSIVE RegularEnum(_, _, _)
RegularEnum(table, nameList, j) ==
    IF j >= Len(nameList) THEN table
    ELSE RegularEnum(Put(table, j, nameList[j + 1]), nameList, j + 1)

\* for j in range(custom_list.numItems): table[itemNumber] = itemName
RECURSIVE CustomEnum(_, _, _)
CustomEnum(table, enumItemList, j) ==
    IF j >= Len(enumItemList) THEN table
    ELSE CustomEnum(Put(table, enumItemList[j + 1].itemNumber,
                        enumItemList[j + 1].itemName),
                    enumItemList, j + 1)

\* the releases update_fields makes once ARGetMultipleFields has returned
ReleaseFieldLists(m) ==
    FreeARStatusList(
      Free(Free(Free(m, "field_id_list"), "field_exist_list"), "field_name_list"))

\* for i in range(field_id_list.numItems): ...
RECURSIVE CacheLoop(_, _, _, _)
CacheLoop(m, schema, flds, i) ==
    IF i >= Len(flds) THEN m
    ELSE
      LET f  == flds[i + 1]
          r  == Read(Read(Read(m, "field_id_list"), "field_name_list"),
                     "field_limits_list")
          m1 == [r EXCEPT !.field_name_cache[schema] = Put(@, f.name, f.id)]
          m2 == [m1 EXCEPT !.field_enum_cache[schema] = Put(@, f.id, <<>>)]
          style == f.enumLimits.listStyle
      IN  IF f.dataType # AR_DATA_TYPE_ENUM
            THEN CacheLoop(m1, schema, flds, i + 1)
          ELSE IF style = AR_ENUM_STYLE_REGULAR
            THEN CacheLoop(
                   [m2 EXCEPT !.field_enum_cache[schema][f.id] =
                      RegularEnum(@, f.enumLimits.regularList, 0)],
                   schema, flds, i + 1)
          ELSE IF style = AR_ENUM_STYLE_CUSTOM
            THEN CacheLoop(
                   [m2 EXCEPT !.field_enum_cache[schema][f.id] =
                      CustomEnum(@, f.enumLimits.customList, 0)],
                   schema, flds, i + 1)
          ELSE Raise(ReleaseFieldLists(m2), "ARSError",
                     <<"query enum", ToString(f.id), schema>>)

\* ghost: update_fields(schema) returns
Updated(m, schema) == [m EXCEPT !.history.updated = @ \cup {schema}]

\* a slip: the reverse map gets its entry only when it is rebuilt, after the loop
FillCaches_rev_last(m, schema) ==
    LET m0 == [m EXCEPT
                 !.field_name_cache = Put(@, schema, <<>>),
                 !.field_enum_cache = Put(@, schema, <<>>)]
        m1 == CacheLoop(m0, schema, ServerFields(schema), 0)
    IN  IF m1.raised # "" THEN m1
        ELSE Updated([ReleaseFieldLists(m1) EXCEPT
                        !.field_name_cache_rev =
                            Put(@, schema, Invert(m1.field_name_cache[schema]))],
                     schema)

\* lines 535-611: the three caches are initialised, filled by the loop, the
\* lists are released and the reverse map is rebuilt
FillCaches(m, schema) ==
    LET m0 == [m EXCEPT
                 !.field_name_cache = Put(@, schema, <<>>),
                 !.field_name_cache_rev = Put(@, schema, <<>>),
                 !.field_enum_cache = Put(@, schema, <<>>)]
        m1 == CacheLoop(m0, schema, ServerFields(schema), 0)
    IN  IF m1.raised # "" THEN m1
        ELSE Updated([ReleaseFieldLists(m1) EXCEPT
                        !.field_name_cache_rev[schema] =
                            Invert(m1.field_name_cache[schema])],
                     schema)

update_fields(m, schema) ==
    IF FieldCacheHit(m, schema) THEN { Updated(m, schema) }
    ELSE UNION {
      IF IsError(a.rc)
        THEN { Raise(FreeARStatusList(Free(_update_errors(a), "field_id_list")),
                     "ARSError", <<"field ids", schema>>) }
        ELSE UNION {
          IF IsError(b.rc)
            THEN { Raise(ReleaseFieldLists(_update_errors(b)),
                         "ARSError", <<"field information", schema>>) }
            ELSE { FillCaches(b, schema) }
          : b \in CallNative(ReleaseBetweenCalls(a, "field_id_list"),
                              "ARGetMultipleFields") }
      : a \in CallNative(m, "ARGetListField") }

(***************************************************************************)
(* fields                                                                  *)
(***************************************************************************)
\* the order of Python's string comparison on the names of the model
NameOrder ==
    <<"Count", "Created", "Lookup", "Name", "Nope", "Priority", "Status",
      "Summary", "Tail">>

NameLess(a, b) ==
    \E i, j \in 1..Len(NameOrder) : NameOrder[i] = a /\ NameOrder[j] = b /\ i < j

\* a slip: sorted(..., reverse=True)
sorted_reverse(keys) ==
    [i \in 1..Cardinality(keys) |->
       CHOOSE x \in keys : Cardinality({y \in keys : NameLess(x, y)}) = i - 1]

RECURSIVE sorted(_)
sorted(keys) ==
    IF keys = {} THEN <<>>
    ELSE LET least == CHOOSE x \in keys : \A y \in keys : ~NameLess(y, x)
         IN  <<least>> \o sorted(keys \ {least})

fields(m, schema) ==
    { IF u.raised # "" THEN u
      ELSE Return(u, sorted(DOMAIN u.field_name_cache[schema]))
      : u \in update_fields(m, schema) }

(***************************************************************************)
(* query                                                                   *)
(***************************************************************************)
RECURSIVE SeqsUpTo(_, _)
SeqsUpTo(S, n) ==
    IF n = 0 THEN {<<>>}
    ELSE SeqsUpTo(S, n - 1) \cup
         {Append(q, x) : q \in {p \in SeqsUpTo(S, n - 1) : Len(p) = n - 1}, x \in S}

\* the qualification string is opaque to the model: the entries it matches
\* are any of the server's, up to MaxEntries of them, in server order
MatchTable ==
    [schema \in Schemas |->
       {q \in SeqsUpTo(1..Len(ServerRows(schema)), MaxEntries) :
          \A i \in 1..(Len(q) - 1) : q[i] < q[i + 1]}]

Matches(schema) == MatchTable[schema]

\* what ARGetListEntryWithFields returns: for each entry the qualifier
\* matched, its identifiers and one value per requested field id
EntryList(schema, matched, fieldIds) ==
    [i \in 1..Len(matched) |->
       LET row == ServerRows(schema)[matched[i]]
       IN  [numItems |-> row.numItems,
            entryId |-> row.entryId,
            entryValues |-> [j \in 1..Len(fieldIds) |->
                               [fieldId |-> fieldIds[j],
                                value |-> row.values[fieldIds[j]]]]]]

\* the releases query makes once ARGetListEntryWithFields has returned
ReleaseQueryLists(m) ==
    FreeARStatusList(
      Free(Free(Free(m, "qualifier"), "field_list"), "entry_list"))

\* a slip: d.get(k, ''), which answers a missing key with a default
GetItem_default(d, k) == IF k \in DOMAIN d THEN <<d[k]>> ELSE <<"">>

\* d[k]: <<the item>>, or <<>> where Python raises KeyError
GetItem(d, k) == IF k \in DOMAIN d THEN <<d[k]>> ELSE <<>>

\* for j in range(values_list.numItems): ...; n counts the appends the loop
\* makes to entries, all of the one dict entry_values
RECURSIVE ValueLoop(_, _, _, _, _, _)
ValueLoop(m, schema, values_list, j, entry_values, n) ==
    IF j >= Len(values_list) \/ m.raised # ""
      THEN [m |-> m, entry_values |-> entry_values, n |-> n]
    ELSE
      LET r         == Read(m, "entry_list")
          field_id  == values_list[j + 1].fieldId
          value     == values_list[j + 1].value
          data_type == value.dataType
          rev       == r.field_name_cache_rev[schema]
          enum      == r.field_enum_cache[schema]
          next(v)   == ValueLoop(r, schema, values_list, j + 1,
                                 Put(entry_values, rev[field_id], v), n + 1)
          stop(x)   == ValueLoop(x, schema, values_list, j, entry_values, n)
      IN  IF field_id \notin DOMAIN rev
            THEN stop(Raise(r, "KeyError", <<ToString(field_id)>>))
          ELSE IF data_type = AR_DATA_TYPE_NULL
            THEN next(PyNone)
          ELSE IF data_type = AR_DATA_TYPE_CHAR
            THEN next(PyStr(value.u.charVal))
          ELSE IF data_type = AR_DATA_TYPE_ENUM
            THEN IF field_id \notin DOMAIN enum
                   THEN stop(Raise(r, "KeyError", <<ToString(field_id)>>))
                 ELSE IF GetItem(enum[field_id], value.u.enumVal) = <<>>
                   THEN stop(Raise(r, "KeyError", <<ToString(value.u.enumVal)>>))
                 ELSE next(PyStr(GetItem(enum[field_id], value.u.enumVal)[1]))
          ELSE IF data_type = AR_DATA_TYPE_TIME
            THEN next(PyDatetime(value.u.timeVal))
          ELSE stop(Raise(ReleaseQueryLists(r), "ARSError",
                          <<"unknown data type", rev[field_id], schema>>))

\* for i in range(entry_list.numItems): ...
RECURSIVE EntryLoop(_, _, _, _, _)
EntryLoop(m, schema, entry_list, i, entries) ==
    IF i >= Len(entry_list)
      THEN Return(ReleaseQueryLists(m), entries)
    ELSE
      LET r == Read(m, "entry_list")
          e == entry_list[i + 1]
          v == ValueLoop(r, schema, e.entryValues, 0, <<>>, 0)
      IN  IF e.numItems # 1
            THEN Raise(ReleaseQueryLists(r), "ARSError", <<"multiple ids">>)
          ELSE IF v.m.raised # "" THEN v.m
          ELSE EntryLoop(v.m, schema, entry_list, i + 1,
                         entries \o [k \in 1..v.n |-> <<e.entryId, v.entry_values>>])

\* a slip: the loop is left after its first round
MissingFields_first_only(m, schema, flds) ==
    {i \in 1..Len(flds) : i = 1 /\ flds[i] \notin DOMAIN m.field_name_cache[schema]}

\* for field in fields: if field not in self.field_name_cache[schema]
MissingFields(m, schema, flds) ==
    {i \in 1..Len(flds) : flds[i] \notin DOMAIN m.field_name_cache[schema]}

\* lines 230-406, once the field names are validated
RunQuery(m, schema, flds) ==
    UNION {
      IF IsError(a.rc)
        THEN { Raise(FreeARStatusList(Free(_update_errors(a), "qualifier")),
                     "ARSError", <<"qualifier", schema>>) }
        ELSE
          LET fieldIds == [i \in 1..Len(flds) |-> a.field_name_cache[schema][flds[i]]]
              l == Event(ReleaseBetweenCalls(a, "qualifier"), "call", "malloc")
          IN  IF \E i \in 1..Len(flds) : flds[i] \notin DOMAIN a.field_name_cache[schema]
                THEN { Raise(l, "KeyError", <<"field_name_cache">>) }
              ELSE UNION {
                IF IsError(b.rc)
                  THEN { Raise(ReleaseQueryLists(_update_errors(b)),
                               "ARSError", <<"entries", schema>>) }
                  ELSE { LET entry_list == EntryList(schema, matched, fieldIds)
                         IN  EntryLoop([b EXCEPT !.fetched = <<entry_list>>],
                                       schema, entry_list, 0, <<>>)
                         : matched \in Matches(schema) }
                : b \in CallNative(l, "ARGetListEntryWithFields") }
      : a \in CallNative(m, "ARLoadARQualifierStruct") }

\* a slip: the names are validated after the qualifier has been compiled
query_validates_late(m, schema, flds) ==
    UNION {
      IF u.raised # "" THEN {u}
      ELSE IF MissingFields(u, schema, flds) # {}
        THEN LET first == CHOOSE i \in MissingFields(u, schema, flds) :
                            \A k \in MissingFields(u, schema, flds) : i <= k
             IN  { Raise(a, "ARSError", <<"no field", flds[first], schema>>)
                   : a \in CallNative(u, "ARLoadARQualifierStruct") }
      ELSE RunQuery(u, schema, flds)
      : u \in update_fields(m, schema) }

query(m, schema, flds) ==
    UNION {
      IF u.raised # "" THEN {u}
      ELSE IF MissingFields(u, schema, flds) # {}
        THEN LET first == CHOOSE i \in MissingFields(u, schema, flds) :
                            \A k \in MissingFields(u, schema, flds) : i <= k
             IN  { Raise(u, "ARSError", <<"no field", flds[first], schema>>) }
      ELSE RunQuery(u, schema, flds)
      : u \in update_fields(m, schema) }

(***************************************************************************)
(* The callers: any sequence of public calls, with any arguments.          *)
(***************************************************************************)
\* the fields arguments of query: up to MaxFields names, each at most once
FieldArgTable ==
    [schema \in Schemas |->
       {f \in SeqsUpTo(FieldNames(schema), MaxFields) :
          \A i, j \in 1..Len(f) : f[i] = f[j] => i = j}]

FieldArgs(schema) == FieldArgTable[schema]

NoCall ==
    [op |-> "", schema |-> "", fields |-> <<>>,
     port |-> 0, rpc_program_number |-> 0]

Live == phase \in {"Connected", "Terminated"}

Finish(m, c) ==
    /\ history' = m.history
    /\ errors' = m.errors
    /\ schema_cache' = m.schema_cache
    /\ field_name_cache' = m.field_name_cache
    /\ field_name_cache_rev' = m.field_name_cache_rev
    /\ field_enum_cache' = m.field_enum_cache
    /\ events' = m.events
    /\ answer' = m.answer
    /\ fetched' = m.fetched
    /\ raised' = m.raised
    /\ msg' = m.msg
    /\ ret' = m.ret
    /\ call' = c
    /\ pre' = Attributes
    /\ atcall' = m.atcall
    /\ pc' = "returned"

Init ==
    /\ phase = NewObject.phase
    /\ history = NewObject.history
    /\ errors = NewObject.errors
    /\ schema_cache = NewObject.schema_cache
    /\ field_name_cache = NewObject.field_name_cache
    /\ field_name_cache_rev = NewObject.field_name_cache_rev
    /\ field_enum_cache = NewObject.field_enum_cache
    /\ pc = "idle"
    /\ call = NoCall
    /\ pre = NewObject
    /\ atcall = <<>>
    /\ events = <<>>
    /\ answer = <<>>
    /\ fetched = <<>>
    /\ raised = ""
    /\ msg = <<>>
    /\ ret = <<>>

\* ARS(server, user, password, port, rpc_program_number)
Construct ==
    /\ pc = "idle"
    /\ phase = "Uninitialized"
    /\ \E port \in {0, 2020}, rpc \in {0, 390600} :
         \E m \in __init__(port, rpc) :
           /\ Finish(m, [NoCall EXCEPT !.op = "__init__", !.port = port,
                                       !.rpc_program_number = rpc])
           /\ phase' = IF m.raised = "" THEN "Connected" ELSE "Uninitialized"

CallTerminate ==
    /\ pc = "idle"
    /\ Live
    /\ \E m \in terminate(Begin(Attributes)) :
         /\ Finish(m, [NoCall EXCEPT !.op = "terminate"])
         /\ phase' = IF m.raised = "" THEN "Terminated" ELSE phase

CallSchemas ==
    /\ pc = "idle"
    /\ Live
    /\ \E m \in schemas(Begin(Attributes)) :
         Finish(m, [NoCall EXCEPT !.op = "schemas"])
    /\ UNCHANGED phase

CallFields ==
    /\ pc = "idle"
    /\ Live
    /\ \E schema \in Schemas :
         \E m \in fields(Begin(Attributes), schema) :
           Finish(m, [NoCall EXCEPT !.op = "fields", !.schema = schema])
    /\ UNCHANGED phase

CallUpdateFields ==
    /\ pc = "idle"
    /\ Live
    /\ \E schema \in Schemas :
         \E m \in update_fields(Begin(Attributes), schema) :
           Finish(m, [NoCall EXCEPT !.op = "update_fields", !.schema = schema])
    /\ UNCHANGED phase

CallQuery ==
    /\ pc = "idle"
    /\ Live
    /\ \E schema \in Schemas :
         \E flds \in FieldArgs(schema) :
           \E m \in query(Begin(Attributes), schema, flds) :
             Finish(m, [NoCall EXCEPT !.op = "query", !.schema = schema,
                                      !.fields = flds])
    /\ UNCHANGED phase

\* the caller takes the result and goes on to its next call
Continue ==
    /\ pc = "returned"
    /\ pc' = "idle"
    /\ call' = NoCall
    /\ pre' = NewObject
    /\ atcall' = <<>>
    /\ events' = <<>>
    /\ answer' = <<>>
    /\ fetched' = <<>>
    /\ raised' = ""
    /\ msg' = <<>>
    /\ ret' = <<>>
    /\ UNCHANGED <<phase, history, errors, schema_cache, field_name_cache,
                   field_name_cache_rev, field_enum_cache>>

Next ==
    \/ Construct
    \/ CallTerminate
    \/ CallSchemas
    \/ CallFields
    \/ CallUpdateFields
    \/ CallQuery
    \/ Continue

Spec == Init /\ [][Next]_vars

(***************************************************************************)
(* Reading the log of a call.                                              *)
(***************************************************************************)
\* the out-parameters each native call fills; malloc makes the field list
Fills(fn) ==
    CASE fn = "ARGetListSchema" -> {"schema_list", "status"}
      [] fn = "ARGetListField" -> {"field_id_list", "status"}
      [] fn = "ARGetMultipleFields" ->
           {"field_exist_list", "field_name_list", "field_limits_list", "status"}
      [] fn = "ARLoadARQualifierStruct" -> {"qualifier", "status"}
      [] fn = "malloc" -> {"field_list"}
      [] fn = "ARGetListEntryWithFields" -> {"entry_list", "status"}
      [] OTHER -> {"status"}

Structures ==
    {"status", "schema_list", "field_id_list", "field_exist_list",
     "field_name_list", "field_limits_list", "qualifier", "field_list",
     "entry_list"}

Positions(kind, what) ==
    {i \in 1..Len(events) : events[i] = <<kind, what>>}

Issued(fn) == Cardinality(Positions("call", fn))

Released(struct) == Cardinality(Positions("free", struct))

Allocated(struct) ==
    Cardinality({i \in 1..Len(events) :
                   events[i][1] = "call" /\ struct \in Fills(events[i][2])})

NativeCalls == {i \in 1..Len(events) : events[i][1] = "call" /\ events[i][2] # "malloc"}

\* how many times the native layer failed a call of fn
Failed(fn) == Cardinality(Positions("fail", fn))

Failures == {i \in 1..Len(events) : events[i][1] = "fail"}

AtBoundary == pc = "returned"

(***************************************************************************)
(* C1.  Every native structure a public call fills or allocates is         *)
(* released exactly once before that call returns or raises: at every call *)
(* boundary, for every structure, allocations equal releases.              *)
(***************************************************************************)
C1_AllocationsEqualReleases ==
    AtBoundary => \A struct \in Structures : Allocated(struct) = Released(struct)

(***************************************************************************)
(* C2.  Between public calls, every schema's field cache is either absent  *)
(* from all three caches or holds the complete mapping for all the fields  *)
(* the native service reported for that schema.                            *)
(***************************************************************************)
Absent(schema) ==
    /\ schema \notin DOMAIN field_name_cache
    /\ schema \notin DOMAIN field_name_cache_rev
    /\ schema \notin DOMAIN field_enum_cache

Complete(schema) ==
    LET flds == ServerFields(schema)
    IN  /\ schema \in DOMAIN field_name_cache
        /\ schema \in DOMAIN field_name_cache_rev
        /\ schema \in DOMAIN field_enum_cache
        /\ DOMAIN field_name_cache[schema] = {flds[i].name : i \in 1..Len(flds)}
        /\ DOMAIN field_name_cache_rev[schema] =
             {field_name_cache[schema][n] : n \in DOMAIN field_name_cache[schema]}
        /\ DOMAIN field_enum_cache[schema] =
             {flds[i].id : i \in {k \in 1..Len(flds) :
                                    flds[k].dataType = AR_DATA_TYPE_ENUM}}

C2_CacheAbsentOrComplete ==
    \A schema \in Schemas : Absent(schema) \/ Complete(schema)

(***************************************************************************)
(* C3.  Between public calls, for every schema in the cache the reverse    *)
(* map is exactly the inverse of the forward map: (name, id) is in the     *)
(* forward map if and only if (id, name) is in the reverse map.            *)
(***************************************************************************)
C3_ReverseIsInverse ==
    \A schema \in DOMAIN field_name_cache :
      /\ schema \in DOMAIN field_name_cache_rev
      /\ \A n \in DOMAIN field_name_cache[schema] :
           /\ field_name_cache[schema][n] \in DOMAIN field_name_cache_rev[schema]
           /\ field_name_cache_rev[schema][field_name_cache[schema][n]] = n
      /\ \A i \in DOMAIN field_name_cache_rev[schema] :
           /\ field_name_cache_rev[schema][i] \in DOMAIN field_name_cache[schema]
           /\ field_name_cache[schema][field_name_cache_rev[schema][i]] = i

(***************************************************************************)
(* C4.  When query succeeds, the result holds exactly one record for every *)
(* entry the entry-retrieval call returned, in the returned order,         *)
(* whatever the number of values each entry carries.                       *)
(***************************************************************************)
C4_OneRecordPerEntry ==
    (AtBoundary /\ call.op = "query" /\ raised = "") =>
       /\ Len(ret) = Len(fetched[1])
       /\ \A i \in 1..Len(ret) : ret[i][1] = fetched[1][i].entryId

(***************************************************************************)
(* C5.  update_fields is idempotent per schema: once update_fields(schema) *)
(* has returned, every later update_fields, fields or query on that schema *)
(* issues no field-id-listing and no multi-field-metadata call and leaves  *)
(* the three field caches of that schema as they were.                     *)
(***************************************************************************)
C5_UpdateFieldsIdempotent ==
    AtBoundary =>
      \A schema \in pre.history.updated :
        /\ (call.op \in {"update_fields", "fields", "query"} /\ call.schema = schema)
             => Issued("ARGetListField") = 0 /\ Issued("ARGetMultipleFields") = 0
        /\ field_name_cache[schema] = pre.field_name_cache[schema]
        /\ field_name_cache_rev[schema] = pre.field_name_cache_rev[schema]
        /\ field_enum_cache[schema] = pre.field_enum_cache[schema]

C5_Witness ==
    /\ AtBoundary
    /\ call.op = "query"
    /\ call.schema = "Incident"
    /\ "Incident" \in pre.history.updated
    /\ raised = ""
    /\ ret # <<>>

(***************************************************************************)
(* C6.  schemas() is memoized after its first success: afterwards the      *)
(* schema-listing call is never issued again and every schemas() returns   *)
(* the sequence that success stored; until then every schemas() issues the *)
(* call, and one that fails leaves schema_cache unset.                     *)
(***************************************************************************)
C6_SchemasMemoized ==
    AtBoundary =>
      /\ pre.history.listed # <<>> =>
           /\ Issued("ARGetListSchema") = 0
           /\ schema_cache = pre.history.listed
           /\ call.op = "schemas" => raised = "" /\ ret = pre.history.listed[1]
      /\ (call.op = "schemas" /\ pre.history.listed = <<>>) =>
           /\ Issued("ARGetListSchema") = 1
           /\ raised # "" => schema_cache = <<>> /\ history.listed = <<>>
           /\ raised = "" => schema_cache = <<ret>> /\ history.listed = <<ret>>

C6_Witness ==
    /\ AtBoundary
    /\ call.op = "schemas"
    /\ pre.history.listed # <<>>
    /\ pre.errors # <<>>
    /\ ret = pre.history.listed[1]

(***************************************************************************)
(* C7.  If a name in the fields argument of query is absent from           *)
(* field_name_cache[schema] after update_fields(schema), query raises and  *)
(* issues neither the qualifier-compilation nor the entry-retrieval call.  *)
(***************************************************************************)
C7_MissingFieldRejected ==
    (/\ AtBoundary
     /\ call.op = "query"
     /\ call.schema \in DOMAIN field_name_cache
     /\ \E i \in 1..Len(call.fields) :
          call.fields[i] \notin DOMAIN field_name_cache[call.schema])
    => /\ raised # ""
       /\ Issued("ARLoadARQualifierStruct") = 0
       /\ Issued("ARGetListEntryWithFields") = 0

C7_Witness ==
    /\ AtBoundary
    /\ call.op = "query"
    /\ call.fields = <<"Summary", "Nope">>
    /\ raised = "ARSError"
    /\ msg = <<"no field", "Nope", "Incident">>

(***************************************************************************)
(* C8.  If any entry the entry-retrieval call returned has an identifier   *)
(* count other than 1, query raises and returns no records, and the        *)
(* qualifier, the field-selection list, the entry list and the status list *)
(* have each been released exactly once, whatever the entry's position.    *)
(***************************************************************************)
ReleasedAfterLastCall(struct) ==
    Cardinality({i \in Positions("free", struct) : \A k \in NativeCalls : k < i})

C8_BadIdentifierCountReleasesAll ==
    (/\ AtBoundary
     /\ call.op = "query"
     /\ fetched # <<>>
     /\ \E i \in 1..Len(fetched[1]) : fetched[1][i].numItems # 1)
    => /\ raised # ""
       /\ ret = <<>>
       /\ Released("qualifier") = 1
       /\ Released("field_list") = 1
       /\ Released("entry_list") = 1
       /\ ReleasedAfterLastCall("status") = 1

(***************************************************************************)
(* C9.  Once terminate() has returned successfully, every later public     *)
(* operation is rejected with an error and issues no native call.          *)
(***************************************************************************)
C9_RejectedAfterTerminate ==
    (AtBoundary /\ pre.phase = "Terminated") => raised # "" /\ NativeCalls = {}

(***************************************************************************)
(* C10.  After a public call, errors reflects only the native call         *)
(* completed most recently: it holds nothing recorded by an earlier failed *)
(* call once a later native call has completed.                            *)
(***************************************************************************)
C10_ErrorsOfLastNativeCall ==
    (AtBoundary /\ answer # <<>>) =>
       errors = <<>> \/ errors = StatusTuples(answer[1].status)

(***************************************************************************)
(* C11.  Construction is all-or-nothing: the constructor yields an         *)
(* instance exactly when the initialization call succeeded and, if port or *)
(* rpc_program_number is non-zero, the port-binding call succeeded too;    *)
(* otherwise it raises and there is no instance.  The port-binding call is *)
(* issued only when port or rpc_program_number is non-zero and only after  *)
(* initialization succeeded.                                               *)
(***************************************************************************)
C11_ConstructionAllOrNothing ==
    (AtBoundary /\ call.op = "__init__") =>
      /\ Positions("call", "ARInitialization") = {1}
      /\ Issued("ARSetServerPort") <= 1
      /\ Issued("ARSetServerPort") = 1 <=>
           /\ Failed("ARInitialization") = 0
           /\ call.port # 0 \/ call.rpc_program_number # 0
      /\ \A i \in Positions("call", "ARSetServerPort") : i > 1
      /\ raised = "" <=> Failures = {}
      /\ phase = IF Failures = {} THEN "Connected" ELSE "Uninitialized"

C11_Witness ==
    /\ AtBoundary
    /\ call.op = "__init__"
    /\ call.port = 0
    /\ call.rpc_program_number # 0
    /\ Failed("ARSetServerPort") = 1
    /\ raised = "ARSError"
    /\ phase = "Uninitialized"

(***************************************************************************)
(* C12.  A native call that fails in schemas, update_fields or query       *)
(* leaves schema_cache and the three field caches exactly as that call     *)
(* found them, and the instance stays usable: as long as the cache is not  *)
(* filled, a later call of the same operation issues the native call       *)
(* again.                                                                  *)
(***************************************************************************)
C12_FailureLeavesCaches ==
    AtBoundary =>
      /\ (call.op \in {"schemas", "update_fields", "query"} /\ Failures # {}) =>
           /\ atcall = <<Caches(Attributes)>>
           /\ raised = "ARSError"
           /\ phase = pre.phase
      /\ (call.op = "schemas" /\ pre.schema_cache = <<>>) =>
           Issued("ARGetListSchema") = 1
      /\ (/\ call.op \in {"update_fields", "query"}
          /\ call.schema \notin DOMAIN pre.field_name_cache) =>
           Issued("ARGetListField") = 1
      /\ (/\ call.op = "query"
          /\ call.schema \in pre.history.updated
          /\ \A i \in 1..Len(call.fields) :
               call.fields[i] \in DOMAIN pre.field_name_cache[call.schema]) =>
           Issued("ARLoadARQualifierStruct") = 1

C12_Witness ==
    /\ AtBoundary
    /\ call.op = "query"
    /\ call.schema = "Task"
    /\ Failed("ARGetListEntryWithFields") = 1
    /\ pre.schema_cache # <<>>
    /\ "Incident" \in DOMAIN pre.field_name_cache
    /\ "Task" \notin DOMAIN pre.field_name_cache
    /\ "Task" \in DOMAIN field_name_cache
    /\ pre.errors # <<>>

(***************************************************************************)
(* C13.  Enum normalization in update_fields: the table of a regular-style *)
(* enum field with name list L maps each zero-based position j to L[j] and *)
(* has no other key; the table of a custom-style enum field maps each item *)
(* number to its item name and has no other key; a field whose data type   *)
(* is not enumeration gets no table.                                       *)
(***************************************************************************)
EnumFieldsProcessed(schema) ==
    \A i \in 1..Len(ServerFields(schema)) :
      LET f == ServerFields(schema)[i]
      IN  (f.dataType = AR_DATA_TYPE_ENUM /\ f.id \notin DOMAIN field_enum_cache[schema])
            => \E k \in 1..i :
                 /\ ServerFields(schema)[k].dataType = AR_DATA_TYPE_ENUM
                 /\ ServerFields(schema)[k].enumLimits.listStyle
                      \notin {AR_ENUM_STYLE_REGULAR, AR_ENUM_STYLE_CUSTOM}

C13_EnumNormalization ==
    \A schema \in DOMAIN field_enum_cache :
      /\ EnumFieldsProcessed(schema)
      /\ \A i \in 1..Len(ServerFields(schema)) :
           LET f     == ServerFields(schema)[i]
               L     == f.enumLimits.regularList
               pairs == f.enumLimits.customList
               table == field_enum_cache[schema][f.id]
           IN  /\ f.dataType # AR_DATA_TYPE_ENUM =>
                    f.id \notin DOMAIN field_enum_cache[schema]
               /\ (/\ f.id \in DOMAIN field_enum_cache[schema]
                   /\ f.enumLimits.listStyle = AR_ENUM_STYLE_REGULAR) =>
                    /\ DOMAIN table = 0..(Len(L) - 1)
                    /\ \A j \in 0..(Len(L) - 1) : table[j] = L[j + 1]
               /\ (/\ f.id \in DOMAIN field_enum_cache[schema]
                   /\ f.enumLimits.listStyle = AR_ENUM_STYLE_CUSTOM) =>
                    /\ DOMAIN table = {pairs[j].itemNumber : j \in 1..Len(pairs)}
                    /\ \A j \in 1..Len(pairs) :
                         table[pairs[j].itemNumber] = pairs[j].itemName

C13_Witness ==
    /\ AtBoundary
    /\ call.op = "update_fields"
    /\ call.schema = "Task"
    /\ Issued("ARGetMultipleFields") = 1
    /\ raised = ""
    /\ "Incident" \in DOMAIN field_enum_cache
    /\ field_enum_cache["Incident"][2][0] = "New"
    /\ field_enum_cache["Task"][1][5] = "Urgent"

(***************************************************************************)
(* C14.  If an enum field of the schema has a style that is neither        *)
(* regular nor custom, update_fields raises an error naming the field id   *)
(* and the schema, and so do fields and query for that schema, at the      *)
(* first call and at every later call (unless a native call failed first). *)
(***************************************************************************)
QueryEnumFields(schema) ==
    {i \in 1..Len(ServerFields(schema)) :
       /\ ServerFields(schema)[i].dataType = AR_DATA_TYPE_ENUM
       /\ ServerFields(schema)[i].enumLimits.listStyle
            \notin {AR_ENUM_STYLE_REGULAR, AR_ENUM_STYLE_CUSTOM}}

C14_QueryEnumAlwaysRejected ==
    (/\ AtBoundary
     /\ call.op \in {"update_fields", "fields", "query"}
     /\ QueryEnumFields(call.schema) # {}
     /\ Failures = {})
    => /\ raised = "ARSError"
       /\ \E i \in QueryEnumFields(call.schema) :
            msg = <<"query enum", ToString(ServerFields(call.schema)[i].id),
                    call.schema>>

(***************************************************************************)
(* C15.  When a returned field value is tagged ENUM and its ordinal is not *)
(* a key of the enum table of that schema and field, query fails with an   *)
(* error and returns no records; no default label is substituted.          *)
(***************************************************************************)
UnknownOrdinals ==
    {<<i, j>> \in (1..MaxEntries) \X (1..MaxFields) :
       /\ fetched # <<>>
       /\ i <= Len(fetched[1])
       /\ j <= Len(fetched[1][i].entryValues)
       /\ LET v == fetched[1][i].entryValues[j]
              enum == field_enum_cache[call.schema]
          IN  /\ v.value.dataType = AR_DATA_TYPE_ENUM
              /\ \/ v.fieldId \notin DOMAIN enum
                 \/ v.value.u.enumVal \notin DOMAIN enum[v.fieldId]}

C15_UnknownOrdinalFails ==
    (AtBoundary /\ call.op = "query" /\ UnknownOrdinals # {}) =>
       raised # "" /\ ret = <<>>

C15_Witness ==
    /\ AtBoundary
    /\ call.op = "query"
    /\ call.schema = "Incident"
    /\ UnknownOrdinals = {<<1, 2>>}
    /\ raised = "KeyError"
    /\ msg = <<"7">>
    /\ ret = <<>>

(***************************************************************************)
(* C16.  Field-value decoding in query depends only on the type tag, the   *)
(* raw value and the schema's enum table.  When every returned entry has   *)
(* one identifier and every returned value is tagged NULL, CHAR, TIME or   *)
(* ENUM with an ordinal of the table, query succeeds, and in every record  *)
(* it returns a NULL value is None, a CHAR value is its text and an ENUM   *)
(* value is the label stored for its ordinal.  A value with any other tag  *)
(* makes query raise an error that names the field and the schema.         *)
(***************************************************************************)
FetchedValues ==
    {<<i, j>> \in (1..MaxEntries) \X (1..MaxFields) :
       /\ fetched # <<>>
       /\ i <= Len(fetched[1])
       /\ j <= Len(fetched[1][i].entryValues)}

ValueAt(p) == fetched[1][p[1]].entryValues[p[2]]

SupportedTags ==
    {AR_DATA_TYPE_NULL, AR_DATA_TYPE_CHAR, AR_DATA_TYPE_ENUM, AR_DATA_TYPE_TIME}

UnsupportedValues ==
    {p \in FetchedValues : ValueAt(p).value.dataType \notin SupportedTags}

\* the name the server gives the field with this id
ServerName(schema, id) ==
    LET i == CHOOSE k \in 1..Len(ServerFields(schema)) :
               ServerFields(schema)[k].id = id
    IN  ServerFields(schema)[i].name

Decoded(schema, v) ==
    CASE v.value.dataType = AR_DATA_TYPE_NULL -> PyNone
      [] v.value.dataType = AR_DATA_TYPE_CHAR -> PyStr(v.value.u.charVal)
      [] v.value.dataType = AR_DATA_TYPE_ENUM ->
           PyStr(field_enum_cache[schema][v.fieldId][v.value.u.enumVal])
      [] v.value.dataType = AR_DATA_TYPE_TIME -> PyDatetime(v.value.u.timeVal)

C16_UnsupportedTagNamed ==
    (AtBoundary /\ call.op = "query" /\ UnsupportedValues # {}) =>
      /\ raised = "ARSError"
      /\ \E p \in UnsupportedValues :
           msg = <<"unknown data type",
                   ServerName(call.schema, ValueAt(p).fieldId), call.schema>>

C16_RecordsDecoded ==
    (AtBoundary /\ call.op = "query" /\ fetched # <<>> /\ raised = "") =>
      /\ \A p \in FetchedValues :
           \E k \in 1..Len(ret) :
             /\ ret[k][1] = fetched[1][p[1]].entryId
             /\ ret[k][2][ServerName(call.schema, ValueAt(p).fieldId)]
                  = Decoded(call.schema, ValueAt(p))
      /\ \A k \in 1..Len(ret) :
           \E p \in FetchedValues : ret[k][1] = fetched[1][p[1]].entryId

C16_SupportedValuesDecode ==
    (/\ AtBoundary
     /\ call.op = "query"
     /\ fetched # <<>>
     /\ \A i \in 1..Len(fetched[1]) : fetched[1][i].numItems = 1
     /\ UnsupportedValues = {}
     /\ UnknownOrdinals = {})
    => raised = ""

C16_DecodingByTag ==
    /\ C16_UnsupportedTagNamed
    /\ C16_RecordsDecoded
    /\ C16_SupportedValuesDecode

(***************************************************************************)
(* C17.  fields(schema) first makes sure the schema's field cache is       *)
(* populated and then returns the names of the schema's forward cache in   *)
(* ascending lexicographic order, each name exactly once.                  *)
(***************************************************************************)
C17_FieldsSorted ==
    (AtBoundary /\ call.op = "fields") =>
      /\ call.schema \notin DOMAIN pre.field_name_cache =>
           Positions("call", "ARGetListField") = {1}
      /\ raised # "" => ret = <<>>
      /\ raised = "" =>
           /\ call.schema \in DOMAIN field_name_cache
           /\ {ret[i] : i \in 1..Len(ret)} = DOMAIN field_name_cache[call.schema]
           /\ \A i \in 1..(Len(ret) - 1) : NameLess(ret[i], ret[i + 1])

C17_Witness ==
    /\ AtBoundary
    /\ call.op = "fields"
    /\ call.schema = "Incident"
    /\ Issued("ARGetMultipleFields") = 1
    /\ ret = <<"Created", "Status", "Summary">>

(***************************************************************************)
(* C18.  On every exit path of query reached after the entry-retrieval     *)
(* call has been issued, the qualifier, the field-selection list and the   *)
(* entry list are released in that order, each exactly once.               *)
(***************************************************************************)
ReleasedInOrder(structs) ==
    /\ \A k \in 1..Len(structs) : Released(structs[k]) = 1
    /\ \A k \in 1..(Len(structs) - 1) :
         \A i \in Positions("free", structs[k]) :
           \A j \in Positions("free", structs[k + 1]) : i < j

C18_ReleaseOrder ==
    (AtBoundary /\ call.op = "query" /\ Issued("ARGetListEntryWithFields") = 1) =>
      /\ ReleasedInOrder(<<"qualifier", "field_list", "entry_list">>)
      /\ \A i \in Positions("free", "qualifier") :
           \A k \in Positions("call", "ARGetListEntryWithFields") : k < i

(***************************************************************************)
(* C19.  No native structure is read or passed to a native call after it   *)
(* has been released: every read of a structure, and every call that takes *)
(* it, comes after the call that filled it with no release in between.  In *)
(* particular the qualifier is released after the entry-retrieval call,    *)
(* the field id list after the multi-field-metadata call, and on a failure *)
(* path the status list is copied into errors before it is released.       *)
(***************************************************************************)
\* the structures a native call takes from the caller
Inputs(fn) ==
    CASE fn = "ARGetMultipleFields" -> {"field_id_list"}
      [] fn = "ARGetListEntryWithFields" -> {"qualifier", "field_list"}
      [] OTHER -> {}

Uses(struct) ==
    {i \in 1..Len(events) :
       \/ events[i] = <<"read", struct>>
       \/ events[i] = <<"decode", struct>>
       \/ events[i][1] = "call" /\ struct \in Inputs(events[i][2])}

FilledAt(struct) ==
    {i \in 1..Len(events) : events[i][1] = "call" /\ struct \in Fills(events[i][2])}

C19_NoUseAfterRelease ==
    AtBoundary =>
      /\ \A struct \in Structures :
           \A i \in Uses(struct) :
             \E f \in FilledAt(struct) :
               /\ f < i
               /\ \A k \in Positions("free", struct) : k < f \/ k > i
      /\ \A f \in Failures :
           \E d \in Positions("decode", "status") :
             /\ d = f + 1
             /\ \E k \in Positions("free", "status") : k > d

C19_Witness ==
    /\ AtBoundary
    /\ call.op = "query"
    /\ Issued("ARGetMultipleFields") = 1
    /\ Issued("ARGetListEntryWithFields") = 1
    /\ Uses("entry_list") # {}
    /\ Released("qualifier") = 1
    /\ Released("field_id_list") = 1
    /\ raised = ""
    /\ ret # <<>>

(***************************************************************************)
(* C20.  Whenever a native call fails, in the constructor, terminate,      *)
(* schemas, update_fields or query, the status list is decoded exactly     *)
(* once for that failure and errors is replaced by the ordered sequence of *)
(* (code, message, detail or None) of that call's status list: afterwards  *)
(* errors holds exactly the records of the failing call.                   *)
(***************************************************************************)
C20_ErrorsReplacedOnFailure ==
    (AtBoundary /\ Failures # {}) =>
      LET status == answer[1].status
      IN  /\ Cardinality(Failures) = 1
          /\ Cardinality(Positions("decode", "status")) = 1
          /\ answer[1].rc >= AR_RETURN_ERROR
          /\ Len(errors) = Len(status)
          /\ \A i \in 1..Len(status) :
               /\ errors[i][1] = status[i].messageNum
               /\ errors[i][2] = status[i].messageText
               /\ errors[i][3] = IF status[i].appendedText = ""
                                   THEN None ELSE status[i].appendedText

C20_Witness ==
    /\ AtBoundary
    /\ call.op = "query"
    /\ Failed("ARLoadARQualifierStruct") = 1
    /\ Len(pre.errors) = 2
    /\ errors = <<<<90, "no server", None>>>>

(***************************************************************************)
(* C21.  A native call is treated as failed if and only if its outcome     *)
(* code is at or above the error threshold: below it (success or warning)  *)
(* the call never raises the native-failure error and never changes        *)
(* errors, at or above it the diagnostics are recorded and the error is    *)
(* raised.                                                                 *)
(***************************************************************************)
NativeFailureMessages ==
    {"initialisation", "set port", "terminate", "schemas", "field ids",
     "field information", "qualifier", "entries"}

RaisedNativeFailure ==
    raised = "ARSError" /\ Len(msg) > 0 /\ msg[1] \in NativeFailureMessages

FailedValidation ==
    call.op = "query" /\ raised = "ARSError" /\ Len(msg) > 0 /\ msg[1] = "no field"

C23_SameSchemaKeys ==
    /\ DOMAIN field_name_cache = DOMAIN field_name_cache_rev
    /\ DOMAIN field_name_cache = DOMAIN field_enum_cache

C23_Witness ==
    /\ AtBoundary
    /\ call.op = "update_fields"
    /\ call.schema = "Broken"
    /\ raised = "ARSError"
    /\ DOMAIN field_name_cache_rev = {"Incident", "Broken"}
    /\ "Broken" \notin DOMAIN pre.field_name_cache

(***************************************************************************)
(* C24.  After update_fields(schema) has returned for a schema whose       *)
(* fields have pairwise distinct names, the forward cache has exactly the  *)
(* names and the reverse cache exactly the ids the native service listed,  *)
(* so every field id a later query hands to the entry-retrieval call       *)
(* resolves to a name in the reverse cache.  When two listed fields share  *)
(* a name, the forward map keeps the id listed last and the reverse map    *)
(* has no entry for the other id.                                          *)
(***************************************************************************)
DistinctNames(schema) ==
    \A i, j \in 1..Len(ServerFields(schema)) :
      ServerFields(schema)[i].name = ServerFields(schema)[j].name => i = j

DistinctNamesResolve(schema) ==
    LET flds == ServerFields(schema)
    IN  /\ DOMAIN field_name_cache[schema] = {flds[i].name : i \in 1..Len(flds)}
        /\ DOMAIN field_name_cache_rev[schema] = {flds[i].id : i \in 1..Len(flds)}
        /\ (call.op = "query" /\ call.schema = schema) =>
             \A p \in FetchedValues :
               ValueAt(p).fieldId \in DOMAIN field_name_cache_rev[schema]

SharedNameKeepsLast(schema) ==
    LET flds == ServerFields(schema)
    IN  \A i, j \in 1..Len(flds) :
          (i < j /\ flds[i].name = flds[j].name) =>
            /\ field_name_cache[schema][flds[i].name] # flds[i].id
            /\ flds[i].id \notin DOMAIN field_name_cache_rev[schema]
            /\ (\A k \in (j + 1)..Len(flds) : flds[k].name # flds[j].name) =>
                 /\ field_name_cache[schema][flds[j].name] = flds[j].id
                 /\ field_name_cache_rev[schema][flds[j].id] = flds[j].name

C24_ForwardAndReverseAfterUpdate ==
    AtBoundary =>
      \A schema \in history.updated :
        /\ DistinctNames(schema) => DistinctNamesResolve(schema)
        /\ SharedNameKeepsLast(schema)
====
